---- MODULE Spec2Model ----
(***************************************************************************)
(* User-space crons (cronlib): scheduleCron / del / rescheduler over the    *)
(* "crons" table and the scheduler's system table of scheduled functions.  *)
(* Every mutation is one transaction, hence one atomic action.             *)
(***************************************************************************)
EXTENDS Integers, Sequences, FiniteSets, TLC

\* ---------------------------------------------------------------- bounds
MaxJobs  == 2
MaxTasks == 5
MaxTime  == 2000

\* ------------------------------------------------------- program constants
MinIntervalMs == 1000

\* An optional field that is not set.
Undefined == "undefined"
NoId      == 0

\* ------------------------------------------------------------ input sets
\* The steps of the clock, and the arguments registrations are called with:
\* an interval below and at the minimum, a cron expression that parses and
\* one that does not, no name, the empty name and a name.
ClockSteps     == {1000}
IntervalInputs == {999, 1000}
CronInputs     == {"* * * * * *", "bad"}
NameInputs     == {Undefined, "", "a"}
ArgsInputs     == {"n1"}
FuncInputs     == {"f"}

JobIds == 1..MaxJobs

VARIABLES
    crons,       \* the "crons" table: job id -> document
    nextCronId,  \* the id the store gives the next inserted document
    tasks,       \* the scheduler's table of scheduled functions, by task id
    now,         \* the clock, in ms
    registered,  \* history: what each job id was registered with, and when
    result       \* history: the last operation and its outcome

vars == <<crons, nextCronId, tasks, now, registered, result>>

\* ------------------------------------------------------ scheduler states
Pending    == "pending"
InProgress == "inProgress"
Success    == "success"
Failed     == "failed"
Canceled   == "canceled"

TaskIds == 1..Len(tasks)

\* Period in ms of the cron expressions the model registers; an expression
\* outside the table is one the parser rejects.
CronPeriodMs(cronspec) ==
    IF cronspec = "* * * * * *" THEN 1000
    ELSE IF cronspec = "*/2 * * * * *" THEN 2000
    ELSE 0

parseExpressionOk(cronspec) == CronPeriodMs(cronspec) > 0

\* Mutant: a date that matches the cronspec is its own next date.
nextScheduledDate_Inclusive(prevDate, cronspec) ==
    ((prevDate + CronPeriodMs(cronspec) - 1) \div CronPeriodMs(cronspec))
        * CronPeriodMs(cronspec)

\* The first instant matching the expression strictly after prevDate.
nextScheduledDate(prevDate, cronspec) ==
    ((prevDate \div CronPeriodMs(cronspec)) + 1) * CronPeriodMs(cronspec)

IntervalSchedule(ms) == [kind |-> "interval", ms |-> ms, cronspec |-> ""]
CronSchedule(cs)     == [kind |-> "cron", ms |-> 0, cronspec |-> cs]

Schedules == {IntervalSchedule(ms) : ms \in IntervalInputs}
             \cup {CronSchedule(cs) : cs \in CronInputs}

\* --------------------------------------------------------------- queries
get(cronJobId) ==
    IF cronJobId \in DOMAIN crons THEN {crons[cronJobId]} ELSE {}

\* Mutant: the lookup compares the name with the wrong field.
getByName_ByFunction(name) ==
    {j \in DOMAIN crons : crons[j].functionName = name}

\* The ids of the records the name index holds under `name`.
getByName(name) == {j \in DOMAIN crons : crons[j].name = name}

\* JavaScript truthiness of an optional string.
Truthy(name) == name # Undefined /\ name # ""

\* ------------------------------------------------- scheduler primitives
TickTask(cronJobId, time, k) ==
    [kind |-> "tick", cronJobId |-> cronJobId, args |-> Undefined,
     functionName |-> "rescheduler", scheduledTime |-> time,
     state |-> Pending, k |-> k]

ExecTask(cronJobId, functionName, args) ==
    [kind |-> "exec", cronJobId |-> cronJobId, args |-> args,
     functionName |-> functionName, scheduledTime |-> now,
     state |-> Pending, k |-> 0]

\* Mutant: cancelling a scheduled function has no effect.
cancel_Noop(ts, id) == ts

\* ctx.scheduler.cancel: a task that has not started is canceled; a task
\* that already started or ended is left as it is.
cancel(ts, id) ==
    IF id \in 1..Len(ts) /\ ts[id].state = Pending
    THEN [ts EXCEPT ![id].state = Canceled]
    ELSE ts

SetState(ts, id, st) == [ts EXCEPT ![id].state = st]

\* The record of the last operation: which operation ran, on which job and
\* task, how it ended, the task it dispatched and the tick it armed, and
\* (for a registration) the schedule and name it was called with.
Res(op, outcome, job, task, exec, armed) ==
    [op |-> op, outcome |-> outcome, job |-> job, task |-> task,
     exec |-> exec, armed |-> armed, input |-> <<>>]

RegisterRes(outcome, job, armed, schedule, name) ==
    [Res("register", outcome, job, NoId, NoId, armed)
        EXCEPT !.input = <<schedule, name>>]

Quiet(op) == Res(op, "ok", NoId, NoId, NoId, NoId)

\* -------------------------------------------------------------- Init
Init ==
    /\ crons = <<>>
    /\ nextCronId = 1
    /\ tasks = <<>>
    /\ now = 0
    /\ registered = <<>>
    /\ result = Quiet("init")

\* ------------------------------------------------------------ the clock
AdvanceClock ==
    \E d \in ClockSteps :
        /\ now + d <= MaxTime
        /\ now' = now + d
        /\ result' = Quiet("clock")
        /\ UNCHANGED <<crons, nextCronId, tasks, registered>>

\* ----------------------------------------------------------- scheduleCron
\* Mutant: the interval check is off by one.
IntervalOk_Strict(ms) == ~(ms <= MinIntervalMs)

IntervalOk(ms) == ~(ms < MinIntervalMs)

\* Mutant: the name is not looked up before the insert.
Validate_NoNameCheck(schedule, name) ==
    IF schedule.kind = "interval" /\ ~IntervalOk(schedule.ms)
        THEN "InvalidInterval"
    ELSE IF schedule.kind = "cron" /\ ~parseExpressionOk(schedule.cronspec)
        THEN "InvalidCronSpec"
    ELSE "ok"

\* Input validation, in the order the checks run.
Validate(schedule, name) ==
    IF Truthy(name) /\ getByName(name) # {} THEN "DuplicateName"
    ELSE IF schedule.kind = "interval" /\ ~IntervalOk(schedule.ms)
        THEN "InvalidInterval"
    ELSE IF schedule.kind = "cron" /\ ~parseExpressionOk(schedule.cronspec)
        THEN "InvalidCronSpec"
    ELSE "ok"

\* Mutant: the first tick of a cron is scheduled for the time of the
\* registration itself.
FirstFireTime_Now(schedule) ==
    IF schedule.kind = "interval" THEN now + schedule.ms ELSE now

\* The time of the first tick: runAfter(ms) for an interval, runAt(next
\* matching date after now) for a cron.
FirstFireTime(schedule) ==
    IF schedule.kind = "interval" THEN now + schedule.ms
    ELSE nextScheduledDate(now, schedule.cronspec)

\* Mutant: the document is inserted without the name it was given.
InsertedDoc_Unnamed(schedule, functionName, name, args) ==
    [functionName |-> functionName, args |-> args, name |-> Undefined,
     schedule |-> schedule, schedulerJobId |-> NoId, executionJobId |-> NoId]

\* The document scheduleCron inserts: no schedulerJobId, no executionJobId.
InsertedDoc(schedule, functionName, name, args) ==
    [functionName |-> functionName, args |-> args, name |-> name,
     schedule |-> schedule, schedulerJobId |-> NoId, executionJobId |-> NoId]

\* Mutant: the handle of the first tick is not stored.
RegisterPatch_Unset(doc, schedulerJobId) == doc

RegisterPatch(doc, schedulerJobId) ==
    [doc EXCEPT !.schedulerJobId = schedulerJobId]

\* Mutant: the document is inserted and its first tick scheduled before the
\* input is validated, and the error leaves them in place.
RegisterThrow_AfterInsert(outcome, schedule, name) ==
    /\ nextCronId <= MaxJobs
    /\ Len(tasks) < MaxTasks
    /\ tasks' = Append(tasks, TickTask(nextCronId, now + MinIntervalMs, 1))
    /\ crons' = crons @@ (nextCronId :>
           RegisterPatch(InsertedDoc(schedule, "f", name, "n1"),
                         Len(tasks) + 1))
    /\ nextCronId' = nextCronId + 1
    /\ registered' = registered @@ (nextCronId :>
           [time |-> now, doc |-> InsertedDoc(schedule, "f", name, "n1")])
    /\ result' = RegisterRes(outcome, NoId, NoId, schedule, name)
    /\ UNCHANGED now

\* scheduleCron throws in its input validation: every check comes before
\* the first insert and the first scheduling call, so nothing was written.
RegisterThrow(outcome, schedule, name) ==
    /\ result' = RegisterRes(outcome, NoId, NoId, schedule, name)
    /\ UNCHANGED <<crons, nextCronId, tasks, now, registered>>

Register(schedule, functionName, name, args) ==
    LET outcome == Validate(schedule, name) IN
    IF outcome # "ok"
    THEN RegisterThrow(outcome, schedule, name)
    ELSE LET cronJobId      == nextCronId
             doc            == InsertedDoc(schedule, functionName, name, args)
             schedulerJobId == Len(tasks) + 1
             tick == TickTask(cronJobId, FirstFireTime(schedule), 1)
         IN  /\ nextCronId <= MaxJobs
             /\ Len(tasks) < MaxTasks
             /\ tasks' = Append(tasks, tick)
             /\ crons' = crons @@ (cronJobId :> RegisterPatch(doc, schedulerJobId))
             /\ nextCronId' = nextCronId + 1
             /\ registered' = registered @@
                    (cronJobId :> [time |-> now, doc |-> doc])
             /\ result' = RegisterRes("ok", cronJobId, schedulerJobId,
                                      schedule, name)
             /\ UNCHANGED now

\* Mutant: del cancels the tasks but leaves the document in the table.
Remove_Keep(f, j) == f

\* -------------------------------------------------------------------- del
Remove(f, j) == [x \in (DOMAIN f) \ {j} |-> f[x]]

\* Mutant: the two failures of del are told apart the wrong way round.
DelOutcome_Swapped(cronJobId) ==
    IF cronJobId \notin DOMAIN crons THEN "NotScheduled"
    ELSE IF crons[cronJobId].schedulerJobId = NoId THEN "JobNotFound"
    ELSE "ok"

DelOutcome(cronJobId) ==
    IF cronJobId \notin DOMAIN crons THEN "JobNotFound"
    ELSE IF crons[cronJobId].schedulerJobId = NoId THEN "NotScheduled"
    ELSE "ok"

\* The two cancellations of del: the scheduler job, then the execution job
\* if the document names one.
DelCancel(ts, cronJob) ==
    LET ts1 == cancel(ts, cronJob.schedulerJobId) IN
    IF cronJob.executionJobId # NoId
    THEN cancel(ts1, cronJob.executionJobId)
    ELSE ts1

Del(cronJobId) ==
    LET outcome == DelOutcome(cronJobId) IN
    /\ result' = Res("del", outcome, cronJobId, NoId, NoId, NoId)
    /\ IF outcome # "ok"
       THEN UNCHANGED <<crons, nextCronId, tasks, now, registered>>
       ELSE /\ tasks' = DelCancel(tasks, crons[cronJobId])
            /\ crons' = Remove(crons, cronJobId)
            /\ UNCHANGED <<nextCronId, now, registered>>

\* ------------------------------------------------------------ rescheduler
Live(st) == st = Pending \/ st = InProgress

\* Mutant: the integrity check accepts only a tick marked as started.
ReschedulerOutcome_RejectsPending(cronJobId) ==
    IF cronJobId \notin DOMAIN crons THEN "JobNotFound"
    ELSE IF crons[cronJobId].schedulerJobId = NoId THEN "NotScheduled"
    ELSE IF crons[cronJobId].schedulerJobId \notin TaskIds
        THEN "ScheduledTaskNotFound"
    ELSE IF tasks[crons[cronJobId].schedulerJobId].state # InProgress
        THEN "Integrity"
    ELSE "ok"

\* Mutant: the state of the stored scheduler job is not checked.
ReschedulerOutcome_NoIntegrity(cronJobId) ==
    IF cronJobId \notin DOMAIN crons THEN "JobNotFound"
    ELSE IF crons[cronJobId].schedulerJobId = NoId THEN "NotScheduled"
    ELSE IF crons[cronJobId].schedulerJobId \notin TaskIds
        THEN "ScheduledTaskNotFound"
    ELSE "ok"

\* The loads and checks at the head of the handler; the handler throws at
\* the first one that fails.
ReschedulerOutcome(cronJobId) ==
    IF cronJobId \notin DOMAIN crons THEN "JobNotFound"
    ELSE IF crons[cronJobId].schedulerJobId = NoId THEN "NotScheduled"
    ELSE IF crons[cronJobId].schedulerJobId \notin TaskIds
        THEN "ScheduledTaskNotFound"
    ELSE IF ~Live(tasks[crons[cronJobId].schedulerJobId].state)
        THEN "Integrity"
    ELSE "ok"

\* The previous execution job, if the document names one, has not ended.
stillRunning(cronJob) ==
    /\ cronJob.executionJobId # NoId
    /\ cronJob.executionJobId \in TaskIds
    /\ Live(tasks[cronJob.executionJobId].state)

\* Mutant: the next tick is computed from the time the tick runs at.
NextTime_FromNow(cronJob, schedulerJob) ==
    IF cronJob.schedule.kind = "interval"
    THEN now + cronJob.schedule.ms
    ELSE nextScheduledDate(now, cronJob.schedule.cronspec)

\* The time of the next tick, from the time the running tick was
\* scheduled for.
NextTime(cronJob, schedulerJob) ==
    IF cronJob.schedule.kind = "interval"
    THEN schedulerJob.scheduledTime + cronJob.schedule.ms
    ELSE nextScheduledDate(schedulerJob.scheduledTime,
                           cronJob.schedule.cronspec)

\* Mutant: the handle of the next tick is not stored.
ReschedulerPatch_Stale(cronJob, nextSchedulerJobId) == cronJob

\* Mutant: the patch of the rescheduler also drops the name of the record.
ReschedulerPatch_DropsName(cronJob, nextSchedulerJobId) ==
    [cronJob EXCEPT !.schedulerJobId = nextSchedulerJobId,
                    !.name = Undefined]

\* The only write of the handler to the document.
ReschedulerPatch(cronJob, nextSchedulerJobId) ==
    [cronJob EXCEPT !.schedulerJobId = nextSchedulerJobId]

\* The scheduler may run a tick that is pending and due, or one it has
\* already marked as started.
Runnable(t) ==
    /\ t \in TaskIds
    /\ tasks[t].kind = "tick"
    /\ \/ tasks[t].state = Pending /\ tasks[t].scheduledTime <= now
       \/ tasks[t].state = InProgress

\* The scheduler marks a due tick as started before it runs the handler.
StartTick(t) ==
    /\ t \in TaskIds
    /\ tasks[t].kind = "tick"
    /\ tasks[t].state = Pending
    /\ tasks[t].scheduledTime <= now
    /\ tasks' = SetState(tasks, t, InProgress)
    /\ result' = Res("startTick", "ok", tasks[t].cronJobId, t, NoId, NoId)
    /\ UNCHANGED <<crons, nextCronId, now, registered>>

\* The handler of the rescheduler mutation, run by task t as one
\* transaction: it throws, and the task ends as failed, or it commits.
RunHandler(t) ==
       LET cronJobId == tasks[t].cronJobId
           outcome   == ReschedulerOutcome(cronJobId)
       IN
       IF outcome # "ok"
       THEN /\ tasks' = SetState(tasks, t, Failed)
            /\ result' = Res("tick", outcome, cronJobId, t, NoId, NoId)
            /\ UNCHANGED <<crons, nextCronId, now, registered>>
       ELSE LET cronJob      == crons[cronJobId]
                schedulerJob == tasks[cronJob.schedulerJobId]
                dispatch     == ~stillRunning(cronJob)
                ts1 == IF dispatch
                       THEN Append(tasks, ExecTask(cronJobId,
                                       cronJob.functionName, cronJob.args))
                       ELSE tasks
                execId == IF dispatch THEN Len(ts1) ELSE NoId
                ts2 == Append(ts1, TickTask(cronJobId,
                                       NextTime(cronJob, schedulerJob),
                                       schedulerJob.k + 1))
                nextSchedulerJobId == Len(ts2)
            IN  /\ Len(ts2) <= MaxTasks
                /\ tasks' = SetState(ts2, t, Success)
                /\ crons' = [crons EXCEPT ![cronJobId] =
                       ReschedulerPatch(cronJob, nextSchedulerJobId)]
                /\ result' = Res("tick", "ok", cronJobId, t, execId,
                                 nextSchedulerJobId)
                /\ UNCHANGED <<nextCronId, now, registered>>

\* Mutant: a tick whose transaction failed is left pending, to be run again.
TickConflict_Retried(t) ==
    /\ Runnable(t)
    /\ tasks' = tasks
    /\ result' = Res("tick", "Conflict", tasks[t].cronJobId, t, NoId, NoId)
    /\ UNCHANGED <<crons, nextCronId, now, registered>>

\* One run of the rescheduler by a tick the scheduler may run.
RunTick(t) == Runnable(t) /\ RunHandler(t)

\* The scheduler delivers a tick a second time: the handler runs for a
\* task that has already run to its end.
Redeliver(t) ==
    /\ t \in TaskIds
    /\ tasks[t].kind = "tick"
    /\ tasks[t].state \in {Success, Failed}
    /\ RunHandler(t)

\* The transaction of a tick fails to commit (write conflict): nothing it
\* did takes effect and the task ends as failed.
TickConflict(t) ==
    /\ Runnable(t)
    /\ tasks' = SetState(tasks, t, Failed)
    /\ result' = Res("tick", "Conflict", tasks[t].cronJobId, t, NoId, NoId)
    /\ UNCHANGED <<crons, nextCronId, now, registered>>

\* ------------------------------------------------------ the target function
StartTarget(t) ==
    /\ t \in TaskIds
    /\ tasks[t].kind = "exec"
    /\ tasks[t].state = Pending
    /\ tasks' = SetState(tasks, t, InProgress)
    /\ result' = Res("startTarget", "ok", tasks[t].cronJobId, t, NoId, NoId)
    /\ UNCHANGED <<crons, nextCronId, now, registered>>

FinishTarget(t, st) ==
    /\ t \in TaskIds
    /\ tasks[t].kind = "exec"
    /\ tasks[t].state = InProgress
    /\ tasks' = SetState(tasks, t, st)
    /\ result' = Res("finishTarget", "ok", tasks[t].cronJobId, t, NoId, NoId)
    /\ UNCHANGED <<crons, nextCronId, now, registered>>

Next ==
    \/ AdvanceClock
    \/ \E s \in Schedules, f \in FuncInputs, n \in NameInputs, a \in ArgsInputs :
           Register(s, f, n, a)
    \/ \E j \in JobIds : Del(j)
    \/ \E t \in TaskIds : StartTick(t)
    \/ \E t \in TaskIds : RunTick(t)
    \/ \E t \in TaskIds : TickConflict(t)
    \/ \E t \in TaskIds : StartTarget(t)
    \/ \E t \in TaskIds, st \in {Success, Failed} : FinishTarget(t, st)

Spec == Init /\ [][Next]_vars

\* Recurrence of one job when no transaction aborts: the scheduler runs
\* every task that stays runnable, time passes, and every dispatched
\* execution starts and ends.
LiveRegister ==
    /\ nextCronId = 1
    /\ \E s \in Schedules, f \in FuncInputs, n \in NameInputs, a \in ArgsInputs :
           Register(s, f, n, a)

LiveNext ==
    \/ AdvanceClock
    \/ LiveRegister
    \/ \E j \in JobIds : Del(j)
    \/ \E t \in 1..MaxTasks : StartTick(t)
    \/ \E t \in 1..MaxTasks : RunTick(t)
    \/ \E t \in 1..MaxTasks : StartTarget(t)
    \/ \E t \in 1..MaxTasks, st \in {Success, Failed} : FinishTarget(t, st)

Fairness ==
    /\ WF_vars(AdvanceClock)
    /\ \A t \in 1..MaxTasks :
          /\ WF_vars(RunTick(t))
          /\ WF_vars(StartTarget(t))
          /\ WF_vars(\E st \in {Success, Failed} : FinishTarget(t, st))

LiveSpec == Init /\ [][LiveNext]_vars /\ Fairness

\* One job under a scheduler that may deliver a tick twice.
DupNext ==
    \/ AdvanceClock
    \/ LiveRegister
    \/ \E j \in JobIds : Del(j)
    \/ \E t \in TaskIds : StartTick(t)
    \/ \E t \in TaskIds : RunTick(t)
    \/ \E t \in TaskIds : TickConflict(t)
    \/ \E t \in TaskIds : Redeliver(t)
    \/ \E t \in TaskIds : StartTarget(t)
    \/ \E t \in TaskIds, st \in {Success, Failed} : FinishTarget(t, st)

DupSpec == Init /\ [][DupNext]_vars

\* =================================================================== claims
\* The tasks of table ts that dispatched the target function of job j, and
\* the most recent of them (task ids grow with the time of scheduling).
ExecsOf(ts, j) ==
    {t \in 1..Len(ts) : ts[t].kind = "exec" /\ ts[t].cronJobId = j}

SetMax(S) == CHOOSE x \in S : \A y \in S : y <= x

LastDispatch(ts, j) ==
    IF ExecsOf(ts, j) = {} THEN NoId ELSE SetMax(ExecsOf(ts, j))

TicksOf(ts, j) ==
    {t \in 1..Len(ts) : ts[t].kind = "tick" /\ ts[t].cronJobId = j}

\* The tasks a step adds to the table.
NewTasks == (1..Len(tasks')) \ (1..Len(tasks))

\* The step is a run of the rescheduler for job j that committed.
TickCommitted(j) ==
    result'.op = "tick" /\ result'.outcome = "ok" /\ result'.job = j

\* C1: a tick that finds the job's previous dispatch still pending or in
\* progress schedules no new invocation of the target function and leaves
\* the record's executionJobId as it was.
C1_OverlapSuppression ==
    [][\A j \in JobIds :
         (/\ TickCommitted(j)
          /\ LastDispatch(tasks, j) # NoId
          /\ Live(tasks[LastDispatch(tasks, j)].state))
         => /\ \A t \in NewTasks : tasks'[t].kind # "exec"
            /\ crons'[j].executionJobId = crons[j].executionJobId]_vars

\* C2: in every state each job has at most one dispatch of its target
\* function that is pending or in progress.
C2_AtMostOneExecution ==
    \A j \in JobIds :
        Cardinality({t \in ExecsOf(tasks, j) : Live(tasks[t].state)}) <= 1

\* C3: a tick that dispatches the target function stores the handle of that
\* dispatch as the record's executionJobId, in the update that stores the
\* new schedulerJobId.
C3_DispatchHandleStored ==
    [][\A j \in JobIds :
         (TickCommitted(j) /\ ExecsOf(tasks', j) # ExecsOf(tasks, j))
         => /\ crons'[j].executionJobId = LastDispatch(tasks', j)
            /\ crons'[j].schedulerJobId \in NewTasks]_vars

\* C4: every existing record has its schedulerJobId set, each job has at
\* most one pending tick task, and no tick or delete ever finds a record
\* whose schedulerJobId is unset.
C4_SingleActiveTick ==
    /\ \A j \in DOMAIN crons :
          /\ crons[j].schedulerJobId # NoId
          /\ Cardinality({t \in TicksOf(tasks, j) :
                             tasks[t].state = Pending}) <= 1
    /\ result.outcome # "NotScheduled"

\* C4 witness: a job that has ticked at least once has a pending tick.
C4_Witness ==
    \E j \in DOMAIN crons :
        /\ tasks[crons[j].schedulerJobId].k >= 2
        /\ tasks[crons[j].schedulerJobId].state = Pending

\* C5: the k-th tick of an interval job with period ms registered at time
\* t0 is scheduled at exactly t0 + k * ms, however late earlier ticks ran.
C5_DriftFree ==
    \A t \in TaskIds :
        (tasks[t].kind = "tick"
           /\ registered[tasks[t].cronJobId].doc.schedule.kind = "interval")
        => tasks[t].scheduledTime =
              registered[tasks[t].cronJobId].time
              + tasks[t].k * registered[tasks[t].cronJobId].doc.schedule.ms

\* C5 witness: a tick of an interval job ran later than it was scheduled
\* for and armed the job's second or later tick.
C5_Witness ==
    /\ result.op = "tick" /\ result.outcome = "ok"
    /\ registered[result.job].doc.schedule.kind = "interval"
    /\ tasks[result.task].scheduledTime < now
    /\ tasks[result.armed].kind = "tick"
    /\ tasks[result.armed].k >= 2

\* C6: every run of the rescheduler that passes the load and integrity
\* checks adds exactly one tick task for the same job, pending, at the time
\* computed from the running tick's scheduled time alone, and stores its
\* handle as schedulerJobId, whether or not it dispatched the target.
C6_AlwaysRearms ==
    [][\A j \in JobIds :
         (/\ result'.op = "tick" /\ result'.job = j
          /\ result'.outcome # "Conflict"
          /\ ReschedulerOutcome(j) = "ok")
         => LET new == {t \in NewTasks : tasks'[t].kind = "tick"}
                ran == tasks[crons[j].schedulerJobId]
                at  == IF crons[j].schedule.kind = "interval"
                       THEN ran.scheduledTime + crons[j].schedule.ms
                       ELSE nextScheduledDate(ran.scheduledTime,
                                              crons[j].schedule.cronspec)
            IN  /\ Cardinality(new) = 1
                /\ \A t \in new :
                      /\ tasks'[t].cronJobId = j
                      /\ tasks'[t].state = Pending
                      /\ tasks'[t].scheduledTime = at
                      /\ crons'[j].schedulerJobId = t]_vars

\* C6 witness: a tick committed and the record names the tick it armed.
C6_Witness ==
    /\ result.op = "tick" /\ result.outcome = "ok"
    /\ result.job \in DOMAIN crons
    /\ crons[result.job].schedulerJobId = result.armed
    /\ tasks[result.armed].state = Pending

\* C7: when no transaction aborts and the scheduler is fair, every tick
\* armed for a job, within the horizon of the model, eventually runs and
\* commits and a dispatch of the target function follows it, unless the
\* job is deleted; each such tick arms the next (C6), so the ticks and the
\* dispatches of a job that is never deleted do not end.
C7_Recurrence ==
    \A t \in 1..MaxTasks :
        (IF t \in TaskIds
         THEN /\ tasks[t].kind = "tick"
              /\ tasks[t].state = Pending
              /\ tasks[t].scheduledTime <= MaxTime
              /\ Len(tasks) + 2 <= MaxTasks
         ELSE FALSE)
        ~> (IF t \in TaskIds
            THEN \/ tasks[t].cronJobId \notin DOMAIN crons
                 \/ /\ tasks[t].state = Success
                    /\ \E e \in ExecsOf(tasks, tasks[t].cronJobId) : e > t
            ELSE FALSE)

\* C7 witness: the second tick of a job has run and committed, and a
\* dispatch of the target function followed it.
C7_Witness ==
    \E t \in TaskIds :
        /\ tasks[t].kind = "tick"
        /\ tasks[t].k = 2
        /\ tasks[t].state = Success
        /\ tasks[t].cronJobId \in DOMAIN crons
        /\ \E e \in ExecsOf(tasks, tasks[t].cronJobId) : e > t

\* C8: after a successful delete the job's tick task is not pending, the
\* task that dispatched its most recent execution is not pending, and the
\* record is gone.
C8_DeleteCancelsBoth ==
    [][\A j \in JobIds :
         (result'.op = "del" /\ result'.outcome = "ok" /\ result'.job = j)
         => /\ tasks'[crons[j].schedulerJobId].state # Pending
            /\ LastDispatch(tasks, j) # NoId
                  => tasks'[LastDispatch(tasks, j)].state # Pending
            /\ j \notin DOMAIN crons']_vars

\* C9: a delete of an id with no record fails with JobNotFound, a delete of
\* a record with no schedulerJobId fails with NotScheduled, and a delete
\* that fails cancels no task and changes no record.
C9_DeleteFailures ==
    [][\A j \in JobIds :
         (result'.op = "del" /\ result'.job = j)
         => /\ j \notin DOMAIN crons => result'.outcome = "JobNotFound"
            /\ (j \in DOMAIN crons /\ crons[j].schedulerJobId = NoId)
                  => result'.outcome = "NotScheduled"
            /\ result'.outcome # "ok"
                  => (crons' = crons /\ tasks' = tasks)]_vars

\* C9 witness: a delete of the id of a record that was deleted before has
\* failed with JobNotFound.
C9_Witness ==
    /\ result.op = "del" /\ result.outcome = "JobNotFound"
    /\ result.job \in DOMAIN registered
    /\ result.job \notin DOMAIN crons

\* C10 as stated: a registration of an interval below 1000 ms always fails
\* with InvalidInterval.
C10_AlwaysInvalidInterval ==
    (/\ result.op = "register"
     /\ result.input[1].kind = "interval"
     /\ result.input[1].ms < MinIntervalMs)
    => result.outcome = "InvalidInterval"

\* C10 amended: a registration of an interval below 1000 ms always fails,
\* with DuplicateName when its name is that of an existing record and with
\* InvalidInterval otherwise; a registration of an interval of 1000 ms or
\* more fails only with DuplicateName; every stored interval is >= 1000 ms.
C10_IntervalValidation ==
    /\ (result.op = "register" /\ result.input[1].kind = "interval")
       => LET ms  == result.input[1].ms
              dup == /\ Truthy(result.input[2])
                     /\ \E j \in DOMAIN crons :
                           /\ crons[j].name = result.input[2]
                           /\ j # result.job
          IN  /\ result.outcome =
                    (IF dup THEN "DuplicateName"
                     ELSE IF ms < MinIntervalMs THEN "InvalidInterval"
                     ELSE "ok")
    /\ \A j \in DOMAIN crons :
          crons[j].schedule.kind = "interval"
             => crons[j].schedule.ms >= MinIntervalMs

\* C10 witness: an interval of 999 ms was refused with InvalidInterval while
\* a record registered with exactly 1000 ms exists.
C10_Witness ==
    /\ result.op = "register" /\ result.outcome = "InvalidInterval"
    /\ result.input[1].ms = MinIntervalMs - 1
    /\ \E j \in DOMAIN crons :
          /\ crons[j].schedule.kind = "interval"
          /\ crons[j].schedule.ms = MinIntervalMs

\* C11: a registration under a non-empty name that an existing record
\* carries fails with DuplicateName, and a registration without a name
\* never fails with DuplicateName.
C11_DuplicateName ==
    result.op = "register"
    => LET name == result.input[2]
           held == \E j \in DOMAIN crons :
                      j # result.job /\ crons[j].name = name
       IN  /\ (name # Undefined /\ name # "" /\ held)
                 => result.outcome = "DuplicateName"
           /\ name = Undefined => result.outcome # "DuplicateName"

\* C11 witness: a registration under the name of an existing record was
\* refused with DuplicateName while an unnamed record exists as well.
C11_Witness ==
    /\ result.op = "register" /\ result.outcome = "DuplicateName"
    /\ \E j \in DOMAIN crons : crons[j].name = result.input[2]
    /\ \E j \in DOMAIN crons : crons[j].name = Undefined

\* C12 as stated: a registration of a cron job with a malformed expression
\* fails with InvalidCronSpec.
C12_MalformedAlwaysInvalidCronSpec ==
    (/\ result.op = "register"
     /\ result.input[1].kind = "cron"
     /\ ~parseExpressionOk(result.input[1].cronspec))
    => result.outcome = "InvalidCronSpec"

\* C12 amended: a registration of a cron job with a malformed expression
\* fails, with DuplicateName when its name is that of an existing record
\* and with InvalidCronSpec otherwise; the first tick of a registered cron
\* job is scheduled at the next matching time after the registration, and
\* every later tick at the next matching time after the time its
\* predecessor was scheduled for.
C12_CronAnchoring ==
    /\ (/\ result.op = "register"
        /\ result.input[1].kind = "cron"
        /\ ~parseExpressionOk(result.input[1].cronspec))
       => LET dup == /\ Truthy(result.input[2])
                     /\ \E j \in DOMAIN crons :
                           crons[j].name = result.input[2]
          IN  result.outcome =
                 (IF dup THEN "DuplicateName" ELSE "InvalidCronSpec")
    /\ \A t \in TaskIds :
          (tasks[t].kind = "tick"
             /\ registered[tasks[t].cronJobId].doc.schedule.kind = "cron")
          => LET reg  == registered[tasks[t].cronJobId]
                 spec == reg.doc.schedule.cronspec
             IN  /\ parseExpressionOk(spec)
                 /\ tasks[t].k = 1
                       => tasks[t].scheduledTime =
                             nextScheduledDate(reg.time, spec)
                 /\ \A u \in TicksOf(tasks, tasks[t].cronJobId) :
                       tasks[u].k = tasks[t].k + 1
                       => tasks[u].scheduledTime =
                             nextScheduledDate(tasks[t].scheduledTime, spec)

\* C12 witness: a tick of a cron job ran later than it was scheduled for
\* and armed the job's second or later tick.
C12_Witness ==
    /\ result.op = "tick" /\ result.outcome = "ok"
    /\ registered[result.job].doc.schedule.kind = "cron"
    /\ tasks[result.task].scheduledTime < now
    /\ tasks[result.armed].kind = "tick"
    /\ tasks[result.armed].k >= 2

\* The record of job j was registered and has been deleted.
Deleted(j) == j \in DOMAIN registered /\ j \notin DOMAIN crons

\* C13: a delete that commits removes the record; from then on a tick of
\* that job fails at the load with JobNotFound, and no step dispatches the
\* job's target function or arms a tick for it.
C13_SafeCancellation ==
    [][\A j \in JobIds :
         /\ (result'.op = "del" /\ result'.outcome = "ok" /\ result'.job = j)
               => j \notin DOMAIN crons'
         /\ Deleted(j)
               => /\ j \notin DOMAIN crons'
                  /\ ExecsOf(tasks', j) = ExecsOf(tasks, j)
                  /\ TicksOf(tasks', j) = TicksOf(tasks, j)
                  /\ (/\ result'.op = "tick" /\ result'.job = j
                      /\ result'.outcome # "Conflict")
                        => result'.outcome = "JobNotFound"]_vars

\* C13 witness: a tick that the scheduler had started before the delete ran
\* after it and failed with JobNotFound.
C13_Witness ==
    /\ result.op = "tick" /\ result.outcome = "JobNotFound"
    /\ Deleted(result.job)
    /\ tasks[result.task].state = Failed

\* The record of job j exists, the tick it names has failed and no tick of
\* the job is pending or in progress.
Stalled(j) ==
    /\ j \in DOMAIN crons
    /\ tasks[crons[j].schedulerJobId].state = Failed
    /\ \A t \in TicksOf(tasks, j) : ~Live(tasks[t].state)

\* C14: a tick whose transaction fails to commit ends as failed and is not
\* run again: it changes no record and schedules nothing, the record (if
\* not deleted meanwhile) still names the failed tick, no tick of the job is
\* pending, and from then on the job stays so, with no dispatch and no tick
\* armed for it, until the record is deleted.
C14_StallOnContention ==
    [][\A j \in JobIds :
         /\ (/\ result'.op = "tick" /\ result'.outcome = "Conflict"
             /\ result'.job = j)
               => /\ crons' = crons
                  /\ Len(tasks') = Len(tasks)
                  /\ tasks'[result'.task].state = Failed
                  /\ \A t \in TicksOf(tasks', j) : ~Live(tasks'[t].state)
                  /\ j \in DOMAIN crons
                        => crons'[j].schedulerJobId = result'.task
         /\ Stalled(j)
               => /\ j \in DOMAIN crons' => Stalled(j)'
                  /\ ExecsOf(tasks', j) = ExecsOf(tasks, j)
                  /\ TicksOf(tasks', j) = TicksOf(tasks, j)]_vars

\* C14 witness: the tick of an existing job failed on a conflict and the
\* clock has since passed the time a next tick would have been due.
C14_Witness ==
    \E j \in DOMAIN crons :
        /\ Stalled(j)
        /\ result.op = "clock"
        /\ now > tasks[crons[j].schedulerJobId].scheduledTime

\* The task the record of job j names as its scheduler job is missing or
\* is neither pending nor in progress.
StoredTickNotLive(j) ==
    IF j \in DOMAIN crons /\ crons[j].schedulerJobId # NoId
    THEN IF crons[j].schedulerJobId \in TaskIds
         THEN ~Live(tasks[crons[j].schedulerJobId].state)
         ELSE TRUE
    ELSE FALSE

\* C15: a run of the rescheduler that finds the task named by the record's
\* schedulerJobId missing or in a state other than pending or in progress
\* throws, and in that run no task is scheduled and no record changes.
C15_IntegrityCheck ==
    [][\A j \in JobIds :
         (/\ result'.op = "tick" /\ result'.job = j
          /\ result'.outcome # "Conflict"
          /\ StoredTickNotLive(j))
         => /\ result'.outcome \in {"Integrity", "ScheduledTaskNotFound"}
            /\ crons' = crons
            /\ Len(tasks') = Len(tasks)
            /\ tasks'[result'.task].state = Failed]_vars

\* C15 witness: a tick delivered again after its transaction had failed
\* found the record naming a failed task and threw.
C15_Witness ==
    /\ result.op = "tick" /\ result.outcome = "Integrity"
    /\ result.job \in DOMAIN crons
    /\ tasks[crons[result.job].schedulerJobId].state = Failed
    /\ \A t \in TaskIds : ~Live(tasks[t].state)

\* C16: a successful scheduleCron adds exactly one record, with the schedule
\* and name it was given and the function and args of the call, without an
\* executionJobId; it returns the id of that record; it creates exactly one
\* task, a pending run of the rescheduler for that id and the record's
\* schedulerJobId, scheduled at now + ms for an interval and at the next
\* date of the cronspec after now for a cron; no other record changes.
C16_RegisterPostcondition ==
    [][(result'.op = "register" /\ result'.outcome = "ok") =>
        LET j == result'.job
            t == result'.armed
            schedule == result'.input[1]
        IN  /\ j \notin DOMAIN crons
            /\ DOMAIN crons' = DOMAIN crons \cup {j}
            /\ \A i \in DOMAIN crons : crons'[i] = crons[i]
            /\ crons'[j].schedule = schedule
            /\ crons'[j].name = result'.input[2]
            /\ crons'[j].functionName \in FuncInputs
            /\ crons'[j].args \in ArgsInputs
            /\ crons'[j].executionJobId = NoId
            /\ crons'[j].schedulerJobId = t
            /\ NewTasks = {t}
            /\ \A u \in TaskIds : tasks'[u] = tasks[u]
            /\ tasks'[t].kind = "tick"
            /\ tasks'[t].state = Pending
            /\ tasks'[t].cronJobId = j
            /\ tasks'[t].scheduledTime =
                  IF schedule.kind = "interval" THEN now + schedule.ms
                  ELSE nextScheduledDate(now, schedule.cronspec)]_vars

\* C16 witness: a named interval job was registered at a time after 0 while
\* another record existed; its first tick is pending at now + ms.
C16_Witness ==
    /\ result.op = "register" /\ result.outcome = "ok"
    /\ result.input[1].kind = "interval"
    /\ Truthy(result.input[2])
    /\ now > 0
    /\ Cardinality(DOMAIN crons) = 2
    /\ tasks[result.armed].state = Pending
    /\ tasks[result.armed].scheduledTime = now + result.input[1].ms

\* The fields of a record that are not task handles.
Payload(doc) ==
    <<doc.schedule, doc.name, doc.functionName, doc.args>>

\* C17: a run of the rescheduler deletes no record and changes no record
\* but its own, and of its own only the task handles; schedule, name,
\* functionName and args of a record are those it was inserted with for as
\* long as the record exists.
C17_TickFrame ==
    [][/\ \A j \in DOMAIN crons :
             /\ Payload(crons[j]) = Payload(registered[j].doc)
             /\ j \in DOMAIN crons' => Payload(crons'[j]) = Payload(crons[j])
       /\ result'.op = "tick" =>
             /\ DOMAIN crons' = DOMAIN crons
             /\ \A i \in DOMAIN crons \ {result'.job} : crons'[i] = crons[i]
      ]_vars

\* C17 witness: two ticks of a named job have committed and the record
\* still carries its name.
C17_Witness ==
    /\ result.op = "tick" /\ result.outcome = "ok"
    /\ result.job \in DOMAIN crons
    /\ Truthy(crons[result.job].name)
    /\ tasks[result.armed].k = 3
    /\ crons[result.job].schedulerJobId = result.armed

\* C18: of two runs of the rescheduler scheduled for one job, the one armed
\* by the other is scheduled strictly later than it and exists only once
\* the other has run to success; so the scheduled times of the ticks of a
\* job increase strictly in the order the ticks were armed.
C18_MonotoneArming ==
    \A t, u \in TaskIds :
        (/\ tasks[t].kind = "tick" /\ tasks[u].kind = "tick"
         /\ tasks[t].cronJobId = tasks[u].cronJobId
         /\ tasks[t].k < tasks[u].k)
        => /\ tasks[t].scheduledTime < tasks[u].scheduledTime
           /\ t < u
           /\ tasks[t].state = Success

\* C18 witness: a cron job has had two ticks commit; three ticks of it
\* exist, the last one armed by the second.
C18_Witness ==
    \E j \in DOMAIN crons :
        /\ crons[j].schedule.kind = "cron"
        /\ {tasks[t].k : t \in TicksOf(tasks, j)} = {1, 2, 3}
        /\ Live(tasks[crons[j].schedulerJobId].state)
        /\ tasks[crons[j].schedulerJobId].k = 3

\* C19: in every reachable state no two records carry the same non-empty
\* name, so getByName finds at most one record for such a name.
C19_NameUniqueness ==
    /\ \A i, j \in DOMAIN crons :
          (i # j /\ Truthy(crons[i].name)) => crons[i].name # crons[j].name
    /\ \A name \in NameInputs :
          Truthy(name) => Cardinality(getByName(name)) <= 1

\* C19 witness: a name was registered, freed by a delete and registered
\* again; a further registration under it was refused, and one record
\* carries it.
C19_Witness ==
    /\ result.op = "register" /\ result.outcome = "DuplicateName"
    /\ \E d \in JobIds : Deleted(d) /\ registered[d].doc.name = result.input[2]
    /\ Cardinality(getByName(result.input[2])) = 1

\* C20: every pending run of the rescheduler scheduled for job id j is the
\* task the record of j names as its schedulerJobId; no such run is pending
\* for an id whose record has been deleted.
C20_NoOrphanTicks ==
    \A t \in TaskIds :
        (tasks[t].kind = "tick" /\ tasks[t].state = Pending)
        => /\ tasks[t].cronJobId \in DOMAIN crons
           /\ crons[tasks[t].cronJobId].schedulerJobId = t

\* C20 witness: a job was deleted after a tick of it had armed a successor;
\* the successor is canceled, and another job's tick is pending.
C20_Witness ==
    /\ result.op = "del" /\ result.outcome = "ok"
    /\ Deleted(result.job)
    /\ \E t \in TicksOf(tasks, result.job) :
          tasks[t].k = 2 /\ tasks[t].state = Canceled
    /\ \E u \in TaskIds :
          /\ tasks[u].kind = "tick" /\ tasks[u].state = Pending
          /\ tasks[u].cronJobId # result.job

\* The errors of the input validation of scheduleCron.
ValidationErrors == {"DuplicateName", "InvalidInterval", "InvalidCronSpec"}

\* C21: a scheduleCron that does not succeed throws DuplicateName,
\* InvalidInterval or InvalidCronSpec, and then no record is inserted or
\* changed, no task is scheduled or changes state, and no id is used up.
C21_FailedValidationUnchanged ==
    [][(result'.op = "register" /\ result'.outcome # "ok") =>
          /\ result'.outcome \in ValidationErrors
          /\ result'.job = NoId /\ result'.armed = NoId
          /\ crons' = crons
          /\ tasks' = tasks
          /\ nextCronId' = nextCronId
          /\ registered' = registered
          /\ now' = now]_vars

\* C21 witness: a malformed cronspec was refused under a name no record
\* holds, while a record with a pending tick existed and ids and task slots
\* were left for an insert.
C21_Witness ==
    /\ result.op = "register" /\ result.outcome = "InvalidCronSpec"
    /\ getByName("a") = {}
    /\ nextCronId <= MaxJobs /\ Len(tasks) < MaxTasks
    /\ \E j \in DOMAIN crons :
          tasks[crons[j].schedulerJobId].state = Pending
====
